---- MODULE Spec2Model ----
(***************************************************************************)
(* Model of the expenditure dashboard script (src/dashboard.py).           *)
(*                                                                         *)
(* The script is a Streamlit page: every user interaction (choosing a      *)
(* file, moving a filter widget, pressing "Update Categories") runs the    *)
(* whole script top to bottom against the session state.  One action of    *)
(* the model is one interaction followed by the script run it triggers.    *)
(*                                                                         *)
(* Text is modelled as sequences of one-character strings so that          *)
(* lowercasing, substring search and the tag regex are computed, not       *)
(* assumed.  Amounts are integers; dates are day/month/year triples.       *)
(***************************************************************************)
EXTENDS Integers, Sequences, FiniteSets, TLC

VARIABLES uploaded_file,        \* value of the file uploader widget
          session_df,           \* st.session_state.df (NoDF when the key is absent)
          rendered,             \* the last script run reached the dashboard body
          error,                \* what the last script run reported through st.error / a traceback
          start_date, end_date, \* sidebar date inputs as of the last run
          selected_categories,  \* sidebar multiselect as of the last run
          amount_range,         \* sidebar slider as of the last run
          batch,                \* edited_uncat of the last "Update Categories" press
          lastOp,               \* the interaction that triggered the last run
          call, arg, ret        \* harness for the pure functions (categorize, tag cleaning)

vars == << uploaded_file, session_df, rendered, error, start_date, end_date,
           selected_categories, amount_range, batch, lastOp, call, arg, ret >>

appVars == << uploaded_file, session_df, rendered, error, start_date, end_date,
              selected_categories, amount_range, batch, lastOp >>

fnVars == << call, arg, ret >>

----------------------------------------------------------------------------
(* Bounds of the model                                                     *)

\* longest uploaded file, in rows
MaxRows == 2

\* longest tag string fed to the tag cleaner on its own
MaxTagLen == 6

----------------------------------------------------------------------------
(* Text helpers                                                            *)

categories_keywords ==
  << [category |-> "Food and Dining",
      keywords |-> << <<"s","w","i","g","g","y">>,
                      <<"z","o","m","a","t","o">>,
                      <<"u","b","e","r","e","a","t","s">>,
                      <<"h","e","i","s","e","t","a","s","s","e">>,
                      <<"r","e","s","t","a","u","r","a","n","t">>,
                      <<"h","o","t","e","l">>,
                      <<"f","o","o","d">>,
                      <<"d","i","n","i","n","g">>,
                      <<"t","a","c","o"," ","b","e","l","l">>,
                      <<"d","o","m","i">>,
                      <<"b","a","k","e","r","s">>,
                      <<"c","o","f","f","e","e">>,
                      <<"l","e","o","n","s">>,
                      <<"h","a","n","g"," ","o","u","t">>,
                      <<"t","h","i","r","d"," ","w","a","v","e">>,
                      <<"c","h","u","r","r","o","l","t","o">>,
                      <<"u","s","h","o","d","a","y","a">>,
                      <<"t","i","b","b","s">>,
                      <<"k","o","i">>,
                      <<"d","i","n","g"," ","d","o","n","g">>,
                      <<"c","a","r","a"," ","c","a","r","a">> >>],
     [category |-> "Groceries",
      keywords |-> << <<"g","r","o","c","e","r","y">>,
                      <<"b","i","g","b","a","s","k","e","t">>,
                      <<"g","r","o","f","e","r","s">>,
                      <<"s","u","p","e","r","m","a","r","k","e","t">>,
                      <<"m","i","l","k">>,
                      <<"v","e","g","e","t","a","b","l","e","s">>,
                      <<"b","l","i","n","k","i","t">>,
                      <<"z","e","p","t","o">>,
                      <<"k","p","n">>,
                      <<"u","s","h","o","d","a","y","a">> >>],
     [category |-> "Transfers",
      keywords |-> << <<"m","o","n","e","y"," ","s","e","n","t">> >>],
     [category |-> "Shopping",
      keywords |-> << <<"a","m","a","z","o","n">>,
                      <<"f","l","i","p","k","a","r","t">>,
                      <<"m","y","n","t","r","a">>,
                      <<"s","h","o","p","p","i","n","g">>,
                      <<"c","l","o","t","h","i","n","g">>,
                      <<"e","l","e","c","t","r","o","n","i","c","s">>,
                      <<"d","i","v","e","r","s","e"," ","r","e","t","a","i","l","s">>,
                      <<"w","e","s","t","s","i","d","e">>,
                      <<"t","e","c","h","m","a","s","h">> >>],
     [category |-> "Travel & Stay",
      keywords |-> << <<"u","b","e","r">>,
                      <<"o","l","a">>,
                      <<"r","a","p","i","d","o">>,
                      <<"h","y","d","e","r","a","b","a","d"," ","m","e","t","r","o">>,
                      <<"b","r","e","v","i","s","t","a","y">> >>],
     [category |-> "Entertainment",
      keywords |-> << <<"n","e","t","f","l","i","x">>,
                      <<"p","r","i","m","e">>,
                      <<"h","o","t","s","t","a","r">>,
                      <<"m","o","v","i","e">>,
                      <<"c","i","n","e","m","a">>,
                      <<"s","u","b","s","c","r","i","p","t","i","o","n">>,
                      <<"a","p","p","l","e"," ","m","e","d","i","a">>,
                      <<"s","p","o","t","i","f","y">> >>],
     [category |-> "Fuel",
      keywords |-> << <<"f","u","e","l">>,
                      <<"p","e","t","r","o","l">> >>],
     [category |-> "Loan",
      keywords |-> << <<"V","a","t","t","u","r","i"," ","P","a","r","i","t","o","s","h">> >>],
     [category |-> "Investments/ Savings",
      keywords |-> << <<"i","c","c","l","g","r","o","w","w">> >>],
     [category |-> "Money Received",
      keywords |-> << <<"r","e","c","e","i","v","e","d"," ","f","r","o","m">> >>] >>

UpperToLower ==
  "A" :> "a" @@ "B" :> "b" @@ "C" :> "c" @@ "D" :> "d" @@ "E" :> "e" @@ "F" :> "f" @@ "G" :> "g" @@
  "H" :> "h" @@ "I" :> "i" @@ "J" :> "j" @@ "K" :> "k" @@ "L" :> "l" @@ "M" :> "m" @@ "N" :> "n" @@
  "O" :> "o" @@ "P" :> "p" @@ "Q" :> "q" @@ "R" :> "r" @@ "S" :> "s" @@ "T" :> "t" @@ "U" :> "u" @@
  "V" :> "v" @@ "W" :> "w" @@ "X" :> "x" @@ "Y" :> "y" @@ "Z" :> "z"

\* str.lower() on one character
LowerChar(c) == IF c \in DOMAIN UpperToLower THEN UpperToLower[c] ELSE c

\* str.lower()
Lower(s) == [i \in 1..Len(s) |-> LowerChar(s[i])]

\* Python's `needle in haystack` on str
Contains(haystack, needle) ==
  \E i \in 1..(Len(haystack) - Len(needle) + 1) :
     SubSeq(haystack, i, i + Len(needle) - 1) = needle

\* a missing cell as pandas reads it (float NaN); no text has a three-letter character
NaN == << "NaN" >>

Whitespace == {" "}

\* the literal marker of the tag regex  #\?\?
Marker == << "#", "?", "?" >>

MoneyReceivedText == <<"M","o","n","e","y"," ","R","e","c","e","i","v","e","d">>

----------------------------------------------------------------------------
(* Tag cleaning: df['Tags'].str.replace(r'#\?\?\s*', '', regex=True)        *)

RECURSIVE SkipWhitespace(_, _)
\* \s* is greedy: first position at or after i that is not whitespace
SkipWhitespace(s, i) ==
  IF i <= Len(s) /\ s[i] \in Whitespace THEN SkipWhitespace(s, i + 1) ELSE i

MarkerAt(s, i) == i + 2 <= Len(s) /\ SubSeq(s, i, i + 2) = Marker

RECURSIVE ReplaceFrom(_, _)
\* re.sub scans left to right once, replacing non-overlapping matches
ReplaceFrom(s, i) ==
  IF i > Len(s) THEN << >>
  ELSE IF MarkerAt(s, i) THEN ReplaceFrom(s, SkipWhitespace(s, i + 3))
  ELSE << s[i] >> \o ReplaceFrom(s, i + 1)

RECURSIVE SkipQuestionMarks(_, _)
SkipQuestionMarks(s, i) ==
  IF i <= Len(s) /\ s[i] = "?" THEN SkipQuestionMarks(s, i + 1) ELSE i

\* faulty variant: the pattern is written #\?*\s* (any number of question marks)
CleanTagsLoose(s) ==
  LET RECURSIVE R(_)
      R(i) == IF i > Len(s) THEN << >>
              ELSE IF s[i] = "#" THEN R(SkipWhitespace(s, SkipQuestionMarks(s, i + 1)))
              ELSE << s[i] >> \o R(i + 1)
  IN IF s = NaN THEN NaN ELSE R(1)

\* .str.replace on one cell; a NaN cell stays NaN
CleanTags(s) == IF s = NaN THEN NaN ELSE ReplaceFrom(s, 1)

----------------------------------------------------------------------------
(* Categorizer                                                             *)

categories_list == [i \in 1..Len(categories_keywords) |-> categories_keywords[i].category]

CategoryNames == {categories_list[i] : i \in 1..Len(categories_list)}

ClosedSet == CategoryNames \cup {"Other"}

\* some keyword of table entry i is a substring of the lowercased details
EntryMatches(i, details_lower) ==
  \E j \in 1..Len(categories_keywords[i].keywords) :
     Contains(details_lower, categories_keywords[i].keywords[j])

\* categorize_transaction; "TypeError" stands for the exception raised by
\* `'Money Received' in tags` when tags is a float NaN
categorize_transaction(details, tags) ==
  LET details_lower == Lower(details)
      hits == {i \in 1..Len(categories_keywords) : EntryMatches(i, details_lower)}
  IN IF hits # {}
       THEN categories_keywords[CHOOSE i \in hits : \A k \in hits : i <= k].category
     ELSE IF tags = NaN THEN "TypeError"
     ELSE IF Contains(tags, MoneyReceivedText) THEN "Money Received"
     ELSE "Other"

----------------------------------------------------------------------------
(* Uploaded files                                                          *)

\* the four columns the page asks for (the st.info text of the else branch)
AllColumns == {"Date", "Transaction Details", "Amount", "Tags"}

required_columns == << "Transaction Details", "Amount", "Tags" >>

\* rows of the CSV as text: Date is a <<day, month, year>> cell
rowFood  == [Date |-> <<1, 1, 2024>>, Details |-> <<"S","w","i","g","g","y">>,
             Amount |-> -2, Tags |-> <<"#","?","?"," ","g">>]
rowOther == [Date |-> <<2, 1, 2024>>, Details |-> <<"x","y","z">>,
             Amount |-> -1, Tags |-> <<"g">>]
rowCredit == [Date |-> <<2, 1, 2024>>, Details |-> <<"x","y","z">>,
              Amount |-> 1, Tags |-> <<"t">>]
rowNoTag == [Date |-> <<1, 1, 2024>>, Details |-> <<"p","q">>,
             Amount |-> -1, Tags |-> NaN]
rowBadDate == [Date |-> <<1, 13, 2024>>, Details |-> <<"S","w","i","g","g","y">>,
               Amount |-> -2, Tags |-> <<"g">>]

GoodRows == {rowFood, rowOther, rowCredit}

\* sequences of 1..n distinct elements of S
SeqsUpTo(S, n) ==
  UNION {{s \in [1..k -> S] : \A i, j \in 1..k : i # j => s[i] # s[j]} : k \in 1..n}

File(cols, rows) == [present |-> TRUE, columns |-> cols, rows |-> rows]

\* uploader value when no file is chosen
None == [present |-> FALSE, columns |-> {}, rows |-> << >>]

CompleteFiles == {File(AllColumns, rs) : rs \in SeqsUpTo(GoodRows, MaxRows)}

NoTagFiles == {File(AllColumns, <<rowNoTag>>), File(AllColumns, <<rowFood, rowNoTag>>)}

BadDateFiles == {File(AllColumns, <<rowBadDate>>), File(AllColumns \ {"Amount"}, <<rowBadDate>>)}

\* sets of absent columns the uploads are exercised with
MissingSets == {{"Amount"}, {"Date"}, {"Date", "Amount"}, {"Transaction Details", "Tags"},
                AllColumns}

MissingColumnFiles == {File(AllColumns \ M, <<rowFood>>) : M \in MissingSets}

Files == CompleteFiles \cup NoTagFiles \cup BadDateFiles \cup MissingColumnFiles

----------------------------------------------------------------------------
(* Ledger Loader: lines 16-64                                              *)

DaysInMonth(m, y) ==
  IF m \in {4, 6, 9, 11} THEN 30
  ELSE IF m = 2 THEN (IF (y % 4 = 0 /\ y % 100 # 0) \/ y % 400 = 0 THEN 29 ELSE 28)
  ELSE 31

\* strptime('%d/%m/%Y') accepts the cell
DateParses(cell) ==
  /\ cell[2] \in 1..12
  /\ cell[1] \in 1..DaysInMonth(cell[2], cell[3])

\* the parsed date, as an integer that orders like the calendar
to_datetime(cell) == cell[3] * 10000 + cell[2] * 100 + cell[1]

\* names: the columns the message lists as absent
NoError == [kind |-> "", msg |-> "", names |-> << >>]

missing_cols(f) == SelectSeq(required_columns, LAMBDA col : col \notin f.columns)

\* line 64 on one row, after line 37 cleaned its Tags
LoadRow(r) ==
  [Date |-> to_datetime(r.Date), Details |-> r.Details, Amount |-> r.Amount,
   Tags |-> CleanTags(r.Tags),
   Category |-> categorize_transaction(r.Details, CleanTags(r.Tags))]

\* lines 18-64: the message of the first st.error / exception, or the categorized frame
ReadAndCategorize(f) ==
  LET df == [i \in 1..Len(f.rows) |-> LoadRow(f.rows[i])]
  IN IF "Date" \notin f.columns
       THEN [error |-> [kind |-> "SchemaError", msg |-> "CSV must contain a 'Date' column.",
                        names |-> << "Date" >>],
             df |-> << >>]
     ELSE IF \E i \in 1..Len(f.rows) : ~DateParses(f.rows[i].Date)
       THEN [error |-> [kind |-> "FormatError",
                        msg |-> "Invalid date format in 'Date' column. Expected format: dd/mm/yyyy",
                        names |-> << >>],
             df |-> << >>]
     ELSE IF missing_cols(f) # << >>
       THEN [error |-> [kind |-> "SchemaError", msg |-> "CSV is missing required columns: ",
                        names |-> missing_cols(f)],
             df |-> << >>]
     ELSE IF \A i \in 1..Len(f.rows) : f.rows[i].Tags = NaN
       THEN [error |-> [kind |-> "Exception", msg |-> "AttributeError", names |-> << >>], df |-> << >>]
     ELSE IF \E i \in 1..Len(df) : df[i].Category = "TypeError"
       THEN [error |-> [kind |-> "Exception", msg |-> "TypeError", names |-> << >>], df |-> << >>]
     ELSE [error |-> NoError, df |-> df]

\* ReadAndCategorize, tabulated once per file (the script recomputes it in every run,
\* always with the same result)
LoadTable == [f \in Files |-> ReadAndCategorize(f)]

LoadOutcome(f) == LoadTable[f]

\* the run gets past line 64
Loads(f) == f.present /\ LoadOutcome(f).error = NoError

----------------------------------------------------------------------------
(* Session state: lines 66-70                                              *)

\* 'df' not in st.session_state
NoDF == << >>

\* lines 67-68
StoreDf(s, df) == IF s = NoDF THEN df ELSE s

\* faulty variant: a failed load drops the session's frame
SessionAfterLoadReset(f, s) ==
  IF Loads(f) THEN StoreDf(s, LoadOutcome(f).df) ELSE NoDF

\* st.session_state.df once the run has stopped or passed line 70
SessionAfterLoad(f, s) ==
  IF Loads(f) THEN StoreDf(s, LoadOutcome(f).df) ELSE s

----------------------------------------------------------------------------
(* Filter Engine: lines 87-104.  A view is the sequence of index labels    *)
(* (positions in the held frame) of its rows, in frame order.              *)

Indices(df) == [i \in 1..Len(df) |-> i]

Range(s) == {s[i] : i \in 1..Len(s)}

Min(S) == CHOOSE x \in S : \A y \in S : x <= y
Max(S) == CHOOSE x \in S : \A y \in S : x >= y

min_date(df) == Min({df[i].Date : i \in 1..Len(df)})
max_date(df) == Max({df[i].Date : i \in 1..Len(df)})
min_amount(df) == Min({df[i].Amount : i \in 1..Len(df)})
max_amount(df) == Max({df[i].Amount : i \in 1..Len(df)})

\* sorted(df['Category'].unique()), as a set
all_categories(df) == {df[i].Category : i \in 1..Len(df)}

\* line 92
DateFilter(df, view, sd, ed) ==
  SelectSeq(view, LAMBDA i : df[i].Date >= sd /\ df[i].Date <= ed)

\* faulty variant: the frame is always put through isin, also for an empty selection
CategoryFilterIsinOnly(df, view, sel) ==
  SelectSeq(view, LAMBDA i : df[i].Category \in sel)

\* lines 97-98
CategoryFilter(df, view, sel) ==
  IF sel # {} THEN SelectSeq(view, LAMBDA i : df[i].Category \in sel) ELSE view

\* line 104
AmountFilter(df, view, ar) ==
  SelectSeq(view, LAMBDA i : df[i].Amount >= ar[1] /\ df[i].Amount <= ar[2])

Filtered(df, sd, ed, sel, ar) ==
  AmountFilter(df, CategoryFilter(df, DateFilter(df, Indices(df), sd, ed), sel), ar)

\* df_filtered of the last run
df_filtered == IF rendered THEN Filtered(session_df, start_date, end_date,
                                         selected_categories, amount_range)
               ELSE << >>

----------------------------------------------------------------------------
(* Aggregator: lines 117-130                                               *)

\* line 118
Debits(df, view) == SelectSeq(view, LAMBDA i : df[i].Amount < 0)

exp_df == Debits(session_df, df_filtered)

\* faulty variant: the sign is not flipped
AbsAmountSigned(df, i) == df[i].Amount

\* line 119
AbsAmount(df, i) == -df[i].Amount

RECURSIVE SumAbs(_, _)
SumAbs(df, view) ==
  IF view = << >> THEN 0 ELSE AbsAmount(df, Head(view)) + SumAbs(df, Tail(view))

\* exp_df.groupby('Category')['Abs Amount'].sum(): one entry per category present
GroupSumByCategory(df, view) ==
  [c \in {df[i].Category : i \in Range(view)} |->
     SumAbs(df, SelectSeq(view, LAMBDA i : df[i].Category = c))]

category_sum == GroupSumByCategory(session_df, exp_df)

\* the slice of the pie for category c (nothing when c has no slice)
Bucket(g, c) == IF c \in DOMAIN g THEN g[c] ELSE 0

RECURSIVE SumOver(_, _)
SumOver(g, S) ==
  IF S = {} THEN 0 ELSE LET c == CHOOSE x \in S : TRUE IN g[c] + SumOver(g, S \ {c})

BucketTotal(g) == SumOver(g, DOMAIN g)

----------------------------------------------------------------------------
(* Correction Store: lines 164-186                                         *)

\* faulty variant: the editor is fed every debit of the view
UncatAllDebits(df, view) == view

\* line 165, over exp_df
Uncat(df, view) == SelectSeq(view, LAMBDA i : df[i].Category = "Other")

uncat == Uncat(session_df, exp_df)

\* categories the editor's select box is exercised with (all are in categories_list)
CorrectionChoices == {"Shopping", "Food and Dining"}

\* what st.data_editor can return for uncat: same rows, same index labels,
\* each Category cell either untouched or set to one of the options
EditedUncats(df, view) ==
  {e \in [1..Len(view) -> [idx : Range(view), Category : ClosedSet]] :
     \A k \in 1..Len(view) :
        /\ e[k].idx = view[k]
        /\ e[k].Category \in {df[view[k]].Category} \cup CorrectionChoices}

\* faulty variant: the write goes to the row's position in the editor, not its index label
ApplyBatchByPosition(df, edited) ==
  LET RECURSIVE Go(_, _)
      Go(d, k) ==
        IF k > Len(edited) THEN d
        ELSE IF edited[k].Category # "Other"
          THEN Go([d EXCEPT ![k].Category = edited[k].Category], k + 1)
        ELSE Go(d, k + 1)
  IN Go(df, 1)

RECURSIVE ApplyFrom(_, _, _)
\* lines 183-185, from editor row k on
ApplyFrom(df, edited, k) ==
  IF k > Len(edited) THEN df
  ELSE IF edited[k].Category # "Other"
    THEN ApplyFrom([df EXCEPT ![edited[k].idx].Category = edited[k].Category], edited, k + 1)
  ELSE ApplyFrom(df, edited, k + 1)

\* lines 183-185
ApplyBatch(df, edited) == ApplyFrom(df, edited, 1)

----------------------------------------------------------------------------
(* One run of the script                                                   *)

NoDate == 0
NoRange == << 0, 0 >>

\* A widget keeps the value the browser sends while its arguments (bounds,
\* options, default) are those of the run before; otherwise it is a new
\* widget and shows its default (lines 90, 91, 96, 103).
SameDateBounds(old, new) ==
  old # NoDF /\ min_date(old) = min_date(new) /\ max_date(old) = max_date(new)

SameAmountBounds(old, new) ==
  old # NoDF /\ min_amount(old) = min_amount(new) /\ max_amount(old) = max_amount(new)

SameOptions(old, new) == old # NoDF /\ all_categories(old) = all_categories(new)

\* f: the uploader's value; s: the session's frame at the start of the run;
\* shown: the frame the widgets of the run before were built from (NoDF if none);
\* sd, ed, sel, ar: the widget values the browser sends
Script(f, s, shown, sd, ed, sel, ar) ==
  LET df == SessionAfterLoad(f, s)
  IN /\ session_df' = df
     /\ rendered' = Loads(f)
     /\ error' = IF f.present THEN LoadOutcome(f).error ELSE NoError
     /\ IF Loads(f)
          THEN /\ start_date' = IF SameDateBounds(shown, df) THEN sd ELSE min_date(df)
               /\ end_date' = IF SameDateBounds(shown, df) THEN ed ELSE max_date(df)
               /\ selected_categories' =
                    IF SameOptions(shown, df) THEN sel ELSE all_categories(df)
               /\ amount_range' = IF SameAmountBounds(shown, df) THEN ar
                                  ELSE << min_amount(df), max_amount(df) >>
          ELSE /\ start_date' = NoDate
               /\ end_date' = NoDate
               /\ selected_categories' = {}
               /\ amount_range' = NoRange

\* the frame the widgets on screen were built from
Shown == IF rendered THEN session_df ELSE NoDF

----------------------------------------------------------------------------
(* Interactions                                                            *)

\* the user picks a file in the uploader (line 14)
Upload(f) ==
  /\ uploaded_file' = f
  /\ Script(f, session_df, Shown, start_date, end_date, selected_categories, amount_range)
  /\ batch' = << >>
  /\ lastOp' = "upload"
  /\ UNCHANGED fnVars

\* the user clears the uploader
RemoveFile ==
  /\ uploaded_file.present
  /\ uploaded_file' = None
  /\ Script(None, session_df, Shown, start_date, end_date, selected_categories, amount_range)
  /\ batch' = << >>
  /\ lastOp' = "remove"
  /\ UNCHANGED fnVars

Refilter(sd, ed, sel, ar) ==
  /\ rendered
  /\ << sd, ed, sel, ar >> # << start_date, end_date, selected_categories, amount_range >>
  /\ Script(uploaded_file, session_df, Shown, sd, ed, sel, ar)
  /\ batch' = << >>
  /\ lastOp' = "filter"
  /\ UNCHANGED << uploaded_file, fnVars >>

DateChoices == {d \in {session_df[i].Date : i \in 1..Len(session_df)} :
                  d >= min_date(session_df) /\ d <= max_date(session_df)}

AmountChoices == {session_df[i].Amount : i \in 1..Len(session_df)}

\* the user moves the start date input (line 90)
ChangeStartDate ==
  /\ rendered
  /\ \E d \in DateChoices : Refilter(d, end_date, selected_categories, amount_range)

\* the user moves the end date input (line 91)
ChangeEndDate ==
  /\ rendered
  /\ \E d \in DateChoices : Refilter(start_date, d, selected_categories, amount_range)

\* the user edits the multiselect (line 96)
ChangeCategories ==
  /\ rendered
  /\ \E sel \in SUBSET all_categories(session_df) :
        Refilter(start_date, end_date, sel, amount_range)

\* the user drags the slider (line 103)
ChangeAmountRange ==
  /\ rendered
  /\ \E lo, hi \in AmountChoices :
        /\ lo <= hi
        /\ Refilter(start_date, end_date, selected_categories, << lo, hi >>)

\* the user edits the table and presses "Update Categories" (lines 182-186):
\* the press runs the script to line 185, st.rerun() runs it again
UpdateCategories ==
  /\ rendered
  /\ uncat # << >>
  /\ \E edited \in EditedUncats(session_df, uncat) :
        /\ batch' = edited
        /\ Script(uploaded_file, ApplyBatch(session_df, edited), session_df,
                  start_date, end_date, selected_categories, amount_range)
  /\ lastOp' = "update"
  /\ UNCHANGED << uploaded_file, fnVars >>

Init ==
  /\ uploaded_file = None
  /\ session_df = NoDF
  /\ rendered = FALSE
  /\ error = NoError
  /\ start_date = NoDate
  /\ end_date = NoDate
  /\ selected_categories = {}
  /\ amount_range = NoRange
  /\ batch = << >>
  /\ lastOp = "start"
  /\ call = "none"
  /\ arg = << >>
  /\ ret = << >>

Next ==
  \/ \E f \in Files : Upload(f)
  \/ RemoveFile
  \/ ChangeStartDate
  \/ ChangeEndDate
  \/ ChangeCategories
  \/ ChangeAmountRange
  \/ UpdateCategories

Spec == Init /\ [][Next]_vars

----------------------------------------------------------------------------
(* The categorizer on its own                                              *)

AppInit ==
  /\ uploaded_file = None
  /\ session_df = NoDF
  /\ rendered = FALSE
  /\ error = NoError
  /\ start_date = NoDate
  /\ end_date = NoDate
  /\ selected_categories = {}
  /\ amount_range = NoRange
  /\ batch = << >>
  /\ lastOp = "start"

AllKeywords ==
  UNION {{categories_keywords[i].keywords[j] : j \in 1..Len(categories_keywords[i].keywords)} :
           i \in 1..Len(categories_keywords)}

\* descriptions as bank statements write them
DetailsInputs ==
  AllKeywords
  \cup {<<"T","o"," ">> \o k \o <<" ","1">> : k \in AllKeywords}
  \cup { <<"S","w","i","g","g","y"," ","o","r","d","e","r">>,
         <<"A","M","A","Z","O","N">>,
         <<"U","b","e","r"," ","t","r","i","p">>,
         <<"u","b","e","r","e","a","t","s"," ","p","e","t","r","o","l">>,
         <<"p","e","t","r","o","l"," ","a","m","a","z","o","n">>,
         <<"P","a","i","d"," ","t","o"," ","V","a","t","t","u","r","i"," ",
           "P","a","r","i","t","o","s","h">>,
         <<"v","a","t","t","u","r","i"," ","p","a","r","i","t","o","s","h">>,
         <<"x","y","z">>,
         << >> }

TagInputs ==
  { NaN, << >>, <<"g">>, MoneyReceivedText,
    <<"M","o","n","e","y"," ","r","e","c","e","i","v","e","d">> }

InitCat ==
  /\ AppInit
  /\ call = "none"
  /\ arg \in [details : DetailsInputs, tags : TagInputs]
  /\ ret = ""

\* line 64 on one row
Categorize ==
  /\ call = "none"
  /\ call' = "categorize"
  /\ ret' = categorize_transaction(arg.details, arg.tags)
  /\ UNCHANGED << arg, appVars >>

NextCat == Categorize

SpecCat == InitCat /\ [][NextCat]_vars

----------------------------------------------------------------------------
(* The tag cleaner on its own                                              *)

TagAlphabet == {"#", "?", " ", "g"}

TagStrings == UNION {[1..n -> TagAlphabet] : n \in 0..MaxTagLen}

InitTag ==
  /\ AppInit
  /\ call = "none"
  /\ arg \in TagStrings
  /\ ret = << >>

\* line 37 on one cell
Clean ==
  /\ call = "none"
  /\ call' = "clean"
  /\ ret' = << CleanTags(arg) >>
  /\ UNCHANGED << arg, appVars >>

\* line 37 again, on its own result
CleanAgain ==
  /\ call = "clean"
  /\ call' = "cleaned twice"
  /\ ret' = Append(ret, CleanTags(ret[1]))
  /\ UNCHANGED << arg, appVars >>

NextTag == Clean \/ CleanAgain

SpecTag == InitTag /\ [][NextTag]_vars

HasMarker(s) == s # NaN /\ Contains(s, Marker)

----------------------------------------------------------------------------
(* Properties                                                              *)

\* C1: a new upload that loads replaces the held ledger wholesale: after it the
\* session's frame is exactly the freshly loaded, freshly categorized rows of
\* the file just uploaded.
C1_UploadReplacesLedger ==
  (lastOp = "upload" /\ Loads(uploaded_file))
     => session_df = LoadOutcome(uploaded_file).df

ValidationErrors == {"SchemaError", "FormatError"}

\* C2: an upload that fails validation (missing column, unparseable date)
\* leaves the session's frame as it was: absent stays absent, a held ledger
\* keeps every row and every field.
C2_FailedUploadKeepsLedger ==
  [][ (lastOp' = "upload" /\ uploaded_file'.present
         /\ LoadOutcome(uploaded_file').error.kind \in ValidationErrors)
      => session_df' = session_df ]_vars

C2_Witness ==
  /\ lastOp = "upload"
  /\ error.kind \in ValidationErrors
  /\ session_df # NoDF
  /\ \E i \in 1..Len(session_df) : session_df[i].Category = "Shopping"

\* C3: whenever a non-empty set M of the four required columns is absent from
\* the uploaded file, the run reports one schema error that names every
\* column of M.
C3_SchemaErrorNamesAllMissing ==
  (lastOp = "upload" /\ uploaded_file.present /\ AllColumns \ uploaded_file.columns # {})
     => /\ error.kind = "SchemaError"
        /\ Range(error.names) = AllColumns \ uploaded_file.columns

\* C4 (as stated): with an empty category selection the filtered view is empty.
C4_EmptySelectionSelectsNone ==
  (rendered /\ selected_categories = {}) => df_filtered = << >>

\* C4 (amended): with an empty category selection the category predicate is
\* not applied: the filtered view is exactly the rows passing the date range
\* and the amount range, whatever their category.
C4_EmptySelectionSelectsAll ==
  (rendered /\ selected_categories = {})
     => df_filtered =
          SelectSeq(Indices(session_df),
                    LAMBDA i : /\ session_df[i].Date >= start_date
                               /\ session_df[i].Date <= end_date
                               /\ session_df[i].Amount >= amount_range[1]
                               /\ session_df[i].Amount <= amount_range[2])

C4_Witness ==
  /\ rendered
  /\ selected_categories = {}
  /\ df_filtered # << >>
  /\ Len(df_filtered) < Len(session_df)
  /\ Cardinality(all_categories(session_df)) > 1

SameButCategory(a, b) ==
  /\ a.Date = b.Date
  /\ a.Details = b.Details
  /\ a.Amount = b.Amount
  /\ a.Tags = b.Tags

\* C5: applying a correction batch changes nothing in the held ledger except
\* the category of the batch rows submitted with a category other than
\* "Other": those take the submitted category, batch rows submitted as "Other"
\* and rows outside the batch stay as they were, and the number, order and
\* other fields of the rows are kept.
C5_CorrectionFrame ==
  [][ lastOp' = "update"
      => /\ Len(session_df') = Len(session_df)
         /\ \A i \in 1..Len(session_df) :
               /\ SameButCategory(session_df'[i], session_df[i])
               /\ session_df'[i].Category # session_df[i].Category
                    => \E k \in 1..Len(batch') :
                          /\ batch'[k].idx = i
                          /\ batch'[k].Category # "Other"
         /\ \A k \in 1..Len(batch') :
               session_df'[batch'[k].idx].Category =
                  IF batch'[k].Category # "Other" THEN batch'[k].Category
                  ELSE session_df[batch'[k].idx].Category ]_vars

C5_Witness ==
  /\ lastOp = "update"
  /\ Len(session_df) > Len(batch)
  /\ session_df[1].Category = "Food and Dining"
  /\ \E k \in 1..Len(batch) :
        /\ batch[k].Category = "Shopping"
        /\ session_df[batch[k].idx].Category = "Shopping"

Selected(sel, c) == sel = {} \/ c \in sel

\* C6: when a correction batch moves one debit row from "Other" to category C
\* and the pie is recomputed with the same date and amount bounds and the same
\* categories let through, C among them, the "Other" slice is lower by the
\* row's absolute amount, the C slice is higher by it, and the slices add up
\* to what they did.
C6_CorrectionMovesBucket ==
  [][ lastOp' = "update"
      => \A r \in 1..Len(session_df) : \A C \in CategoryNames :
           ( /\ session_df[r].Category = "Other"
             /\ session_df'[r].Category = C
             /\ \A i \in 1..Len(session_df) : i # r => session_df'[i] = session_df[i]
             /\ start_date' = start_date
             /\ end_date' = end_date
             /\ amount_range' = amount_range
             /\ Selected(selected_categories', C)
             /\ \A d \in all_categories(session_df) \cap all_categories(session_df') :
                   Selected(selected_categories', d) <=> Selected(selected_categories, d) )
           => /\ Bucket(category_sum', "Other")
                   = Bucket(category_sum, "Other") - (0 - session_df[r].Amount)
              /\ Bucket(category_sum', C)
                   = Bucket(category_sum, C) + (0 - session_df[r].Amount)
              /\ BucketTotal(category_sum') = BucketTotal(category_sum) ]_vars

C6_Witness ==
  /\ lastOp = "update"
  /\ rendered
  /\ Len(batch) = 1
  /\ batch[1].Category = "Food and Dining"
  /\ "Other" \notin DOMAIN category_sum
  /\ Bucket(category_sum, "Food and Dining") = 3

\* C7: first match wins: when some keyword matches the lowercased details the
\* result is the earliest table entry with a matching keyword, and every
\* declared keyword selects its own category when it occurs in the details
\* and no earlier entry matches.
C7_FirstMatchWins ==
  (call = "categorize" /\ arg.tags # NaN)
     => LET details_lower == Lower(arg.details)
            NoEarlier(i) == \A j \in 1..(i - 1) : ~EntryMatches(j, details_lower)
        IN \A i \in 1..Len(categories_keywords) :
              /\ (EntryMatches(i, details_lower) /\ NoEarlier(i))
                    => ret = categories_keywords[i].category
              /\ \A j \in 1..Len(categories_keywords[i].keywords) :
                    (Contains(arg.details, categories_keywords[i].keywords[j]) /\ NoEarlier(i))
                       => ret = categories_keywords[i].category

\* C8: categorize never fails: for every details and every Tags cell a loaded
\* row can carry, an empty cell included, the result is a member of the
\* closed category set.
C8_CategorizeTotal ==
  call = "categorize" => ret \in ClosedSet

\* C9 (as stated): the cleaned tag never contains the marker, so cleaning it
\* again changes nothing.
C9_CleanIsIdempotent ==
  /\ Len(ret) >= 1 => ~HasMarker(ret[1])
  /\ Len(ret) = 2 => ret[2] = ret[1]

\* C9 (amended): cleaning a tag that contains no marker returns it unchanged,
\* so cleaning is idempotent on every tag whose cleaned form has no marker.
C9_CleanKeepsCleanTags ==
  /\ (Len(ret) >= 1 /\ ~HasMarker(arg)) => ret[1] = arg
  /\ (Len(ret) = 2 /\ ~HasMarker(ret[1])) => ret[2] = ret[1]

C9_Witness ==
  /\ Len(ret) = 2
  /\ HasMarker(arg)
  /\ ~HasMarker(ret[1])
  /\ Contains(ret[1], << "#", "?" >>)

\* C10: corrections only move rows away from "Other": through filter changes
\* and correction batches a row's category changes only in a batch, only if
\* the row was "Other" and a debit of the filtered view, and never to "Other";
\* so a category that is not "Other" stays.
C10_OnlyAwayFromOther ==
  [][ lastOp' \in {"filter", "update"}
      => /\ Len(session_df') = Len(session_df)
         /\ \A i \in 1..Len(session_df) :
               session_df'[i].Category # session_df[i].Category
                 => /\ lastOp' = "update"
                    /\ session_df[i].Category = "Other"
                    /\ session_df[i].Amount < 0
                    /\ i \in Range(df_filtered)
                    /\ session_df'[i].Category # "Other" ]_vars

C10_Witness ==
  /\ lastOp = "update"
  /\ \E k \in 1..Len(batch) :
        /\ batch[k].Category # "Other"
        /\ session_df[batch[k].idx].Category = batch[k].Category
  /\ \E i \in 1..Len(session_df) : session_df[i].Category = "Other"
====
